---- MODULE Spec2Model ----
(***************************************************************************)
(* Model of generate_homepage_from_content.py (Python 2).                  *)
(*                                                                         *)
(* Text is a sequence of chunks.  The characters the program inspects      *)
(* ("%", "s", ":", a newline) are chunks of their own; every other chunk   *)
(* is an opaque run of characters that contains none of them.              *)
(***************************************************************************)
EXTENDS Integers, Sequences, FiniteSets, TLC

VARIABLES
    args,                    \* argparse namespace: content_csv, page_template, outfile
    fs,                      \* the file system: path -> file
    fs0,                     \* the file system when the process was launched
    pc,                      \* position of the process in main()
    content_csv_filepath,    \* local of main()
    page_template_filepath,  \* local of main()
    outfile_filepath,        \* local of main() (Unbound until assigned)
    content,                 \* rows loaded by content_from_csv
    html_elements_to_add,    \* list built by the row loop
    page_template,           \* text read from the template file
    requests,                \* HTTP GETs issued so far, in order
    responses,               \* HTTP responses received so far, in order
    embedded_calls,          \* calls of html_element_from_embedded_content
    writes,                  \* number of outfile.write calls
    fault,                   \* name of the uncaught exception, "" if none
    exit_code                \* exit status of the process once it has ended

vars == <<args, fs, fs0, pc, content_csv_filepath, page_template_filepath,
          outfile_filepath, content, html_elements_to_add, page_template,
          requests, responses, embedded_calls, writes, fault, exit_code>>

----------------------------------------------------------------------------
(* Bounds *)

MaxRows == 2

MaxTemplateLen == 4

----------------------------------------------------------------------------
(* Python values *)

\* None is a one-chunk sequence whose chunk occurs in no text.
None == <<"\\NoneType">>

\* An unassigned local variable.
Unbound == <<"\\unbound">>

\* Truth value testing: None and the empty string are false.
Falsy(v) == v = None \/ v = <<>>

\* str(v) for a string or None.
PyStr(v) == IF v = None THEN <<"None">> ELSE v

Ok(text) == [err |-> "", text |-> text]

Raise(name) == [err |-> name, text |-> <<>>]

\* fmt % args of Python 2, args given as the sequence of arguments:
\* "%s" takes the next argument, "%%" is a literal "%", a "%" at the end of
\* the format or before any other character is a ValueError, too few
\* arguments or arguments left over are a TypeError.
RECURSIVE PyFormatFrom(_, _, _, _)
PyFormatFrom(fmt, i, rest, out) ==
    IF i > Len(fmt)
    THEN IF Len(rest) > 0 THEN Raise("TypeError: not all arguments converted") ELSE Ok(out)
    ELSE IF fmt[i] # "%"
    THEN PyFormatFrom(fmt, i + 1, rest, Append(out, fmt[i]))
    ELSE IF i = Len(fmt)
    THEN Raise("ValueError: incomplete format")
    ELSE IF fmt[i + 1] = "%"
    THEN PyFormatFrom(fmt, i + 2, rest, Append(out, "%"))
    ELSE IF fmt[i + 1] = "s"
    THEN IF Len(rest) = 0
         THEN Raise("TypeError: not enough arguments")
         ELSE PyFormatFrom(fmt, i + 2, Tail(rest), out \o PyStr(Head(rest)))
    ELSE Raise("ValueError: unsupported format character")

PyFormat(fmt, arguments) == PyFormatFrom(fmt, 1, arguments, <<>>)

\* elem.replace('%', '%%')
RECURSIVE replace_percent(_)
replace_percent(text) ==
    IF text = <<>> THEN <<>>
    ELSE (IF Head(text) = "%" THEN <<"%", "%">> ELSE <<Head(text)>>)
         \o replace_percent(Tail(text))

\* sep.join(texts)
RECURSIVE join(_, _)
join(sep, texts) ==
    IF texts = <<>> THEN <<>>
    ELSE IF Len(texts) = 1 THEN texts[1]
    ELSE texts[1] \o sep \o join(sep, Tail(texts))

\* urllib.quote(url): "/" and unreserved characters are kept, ":" and "%"
\* are percent-encoded.
RECURSIVE urllib_quote(_)
urllib_quote(url) ==
    IF url = <<>> THEN <<>>
    ELSE (CASE Head(url) = "%" -> <<"%", "25">>
            [] Head(url) = ":" -> <<"%", "3A">>
            [] OTHER -> <<Head(url)>>)
         \o urllib_quote(Tail(url))

----------------------------------------------------------------------------
(* Module constants *)

DEFAULT_CONTENT_CSV_PATH == <<"./content.csv">>

DEFAULT_PAGE_TEMPLATE_PATH == <<"./index_template.html">>

DEFAULT_OUTFILE_PATH == <<"index.html">>

CONTENT_TYPE_TWITTER == <<"twitter">>

CONTENT_TYPE_INSTAGRAM == <<"instagram">>

CONTENT_TYPE_WEBSITE == <<"website">>

CONTENT_TYPES == {CONTENT_TYPE_TWITTER, CONTENT_TYPE_INSTAGRAM, CONTENT_TYPE_WEBSITE}

EMBEDDED_CONTENT_TYPES == {CONTENT_TYPE_TWITTER, CONTENT_TYPE_INSTAGRAM}

CONTENT_CONTAINER == <<"<div class=\"content ", "%", "s", "\">", "%", "s", "</div>">>

WEBSITE_CONTENT_TEMPLATE ==
    <<"<span class=\"website-content\">", "%", "s", "</span>", "\n",
      "<span class=\"website-url\">", "%", "s", "</span>">>

TWITTER_OEMBED_ENDPOINT == <<"https", ":", "//publish.twitter.com/oembed?url=", "%", "s">>

INSTAGRAM_OEMBED_ENDPOINT == <<"https", ":", "//api.instagram.com/oembed/?url=", "%", "s">>

TWITTER_HTML_KEY == "html"

INSTAGRAM_HTML_KEY == "html"

----------------------------------------------------------------------------
(* Files *)

NotAFile == [isfile |-> FALSE, rows |-> <<>>, text |-> <<>>]

TextFile(text) == [isfile |-> TRUE, rows |-> <<>>, text |-> text]

CsvFile(rows) == [isfile |-> TRUE, rows |-> rows, text |-> <<>>]

ALT_CONTENT_CSV_PATH == <<"alt/content.csv">>

ALT_PAGE_TEMPLATE_PATH == <<"alt/template.html">>

ALT_OUTFILE_PATH == <<"alt/out.html">>

Paths == {DEFAULT_CONTENT_CSV_PATH, DEFAULT_PAGE_TEMPLATE_PATH, DEFAULT_OUTFILE_PATH,
          ALT_CONTENT_CSV_PATH, ALT_PAGE_TEMPLATE_PATH, ALT_OUTFILE_PATH}

----------------------------------------------------------------------------
(* The oEmbed services *)

\* What the JSON of a response body holds under each key; a body that is
\* not JSON has no object at all.
EMBED_HTML == <<"<blockquote>", "100", "%", "</blockquote>">>

Responses ==
    {[status_code |-> 200, body |-> "html"],
     [status_code |-> 200, body |-> "nokey"],
     [status_code |-> 200, body |-> "malformed"],
     [status_code |-> 404, body |-> "malformed"]}

\* json.loads(response.content)[key]
json_loads_get(body, key) ==
    IF body = "malformed" THEN Raise("ValueError: No JSON object could be decoded")
    ELSE IF body = "html" /\ key = "html" THEN Ok(EMBED_HTML)
    ELSE Raise("KeyError")

twitter_query_path(url) == PyFormat(TWITTER_OEMBED_ENDPOINT, <<urllib_quote(url)>>).text

instagram_query_path(url) == PyFormat(INSTAGRAM_OEMBED_ENDPOINT, <<url>>).text

\* The part of get_twitter_embed_code after requests.get has returned.
get_twitter_embed_code(url, response) ==
    IF response.status_code # 200
    THEN Ok(None)
    ELSE json_loads_get(response.body, TWITTER_HTML_KEY)

\* The part of get_instagram_embed_code after requests.get has returned.
get_instagram_embed_code(url, response) ==
    IF response.status_code # 200
    THEN Ok(None)
    ELSE json_loads_get(response.body, INSTAGRAM_HTML_KEY)

\* Variant: the GET is issued a second time (a retry).
embedded_content_requests_retry(url, content_type) ==
    IF content_type = CONTENT_TYPE_TWITTER
    THEN <<twitter_query_path(url), twitter_query_path(url)>>
    ELSE IF content_type = CONTENT_TYPE_INSTAGRAM
    THEN <<instagram_query_path(url), instagram_query_path(url)>>
    ELSE <<>>

\* The GETs html_element_from_embedded_content puts on the wire, in order.
embedded_content_requests(url, content_type) ==
    IF content_type = CONTENT_TYPE_TWITTER THEN <<twitter_query_path(url)>>
    ELSE IF content_type = CONTENT_TYPE_INSTAGRAM THEN <<instagram_query_path(url)>>
    ELSE <<>>

html_element_from_embedded_content(url, content_type, response) ==
    LET embed_code ==
            IF content_type = CONTENT_TYPE_TWITTER
            THEN get_twitter_embed_code(url, response)
            ELSE IF content_type = CONTENT_TYPE_INSTAGRAM
            THEN get_instagram_embed_code(url, response)
            ELSE Raise("ValueError: Unexpected type")
    IN  IF embed_code.err # "" THEN embed_code
        ELSE PyFormat(CONTENT_CONTAINER, <<content_type, embed_code.text>>)

\* Variant: the arguments of the website template are given in the
\* order (url, quote).
html_element_from_website_content_swapped(url, quote) ==
    LET website_content == PyFormat(WEBSITE_CONTENT_TEMPLATE, <<url, quote>>).text
    IN  PyFormat(CONTENT_CONTAINER, <<<<"website">>, website_content>>).text

html_element_from_website_content(url, quote) ==
    LET website_content == PyFormat(WEBSITE_CONTENT_TEMPLATE, <<quote, url>>).text
    IN  PyFormat(CONTENT_CONTAINER, <<<<"website">>, website_content>>).text

\* Variant: the url of an embedded row is not checked.
html_element_from_content_branch_no_url_check(content_dict) ==
    LET content_type == content_dict.type
    IN  IF Falsy(content_type) THEN "no_type"
        ELSE IF content_type \notin CONTENT_TYPES THEN "unrecognized"
        ELSE IF content_type \in EMBEDDED_CONTENT_TYPES THEN "embedded"
        ELSE IF content_type = CONTENT_TYPE_WEBSITE THEN "website"
        ELSE "unbound"

\* Variant: the embedded branch tests membership in CONTENT_TYPES.
html_element_from_content_branch_all_embedded(content_dict) ==
    LET content_type == content_dict.type
    IN  IF Falsy(content_type) THEN "no_type"
        ELSE IF content_type \notin CONTENT_TYPES THEN "unrecognized"
        ELSE IF content_type \in CONTENT_TYPES
        THEN IF Falsy(content_dict.url) THEN "no_url" ELSE "embedded"
        ELSE IF content_type = CONTENT_TYPE_WEBSITE THEN "website"
        ELSE "unbound"

\* The branch html_element_from_content takes for a row.
html_element_from_content_branch(content_dict) ==
    LET content_type == content_dict.type
    IN  IF Falsy(content_type) THEN "no_type"
        ELSE IF content_type \notin CONTENT_TYPES THEN "unrecognized"
        ELSE IF content_type \in EMBEDDED_CONTENT_TYPES
        THEN IF Falsy(content_dict.url) THEN "no_url" ELSE "embedded"
        ELSE IF content_type = CONTENT_TYPE_WEBSITE THEN "website"
        ELSE "unbound"

os_path_isfile(fsys, filepath) == filepath \in DOMAIN fsys /\ fsys[filepath].isfile

content_from_csv(fsys, filepath) == fsys[filepath].rows

\* Variant: the output file is opened for writing (and so truncated) before
\* the template is read.
main_assemble_open_first(fsys, template_path, out_path, elems) ==
    IF out_path = Unbound
    THEN [err |-> "UnboundLocalError", template |-> <<>>, fs |-> fsys, writes |-> 0]
    ELSE LET opened == [fsys EXCEPT ![out_path] = TextFile(<<>>)]
         IN  IF ~os_path_isfile(opened, template_path)
             THEN [err |-> "IOError", template |-> <<>>, fs |-> opened, writes |-> 0]
             ELSE LET template == opened[template_path].text
                      failed(name) == [err |-> name, template |-> template,
                                       fs |-> opened, writes |-> 0]
                  IN  IF \E i \in 1..Len(elems) : elems[i] = None
                      THEN failed("AttributeError")
                      ELSE LET html_to_insert ==
                                   join(<<"\n", "\n">>,
                                        [i \in 1..Len(elems) |-> replace_percent(elems[i])])
                               generated_page == PyFormat(template, <<html_to_insert>>)
                           IN  IF generated_page.err # "" THEN failed(generated_page.err)
                               ELSE [err |-> "", template |-> template, writes |-> 1,
                                     fs |-> [fsys EXCEPT ![out_path] =
                                                 TextFile(generated_page.text)]]

\* main() from the end of the row loop: read the template, escape and join
\* the elements, substitute, write.  Yields the exception raised (if any),
\* the template text read, and the file system left behind.
main_assemble(fsys, template_path, out_path, elems) ==
    IF ~os_path_isfile(fsys, template_path)
    THEN [err |-> "IOError", template |-> <<>>, fs |-> fsys, writes |-> 0]
    ELSE LET template == fsys[template_path].text
             failed(name) == [err |-> name, template |-> template, fs |-> fsys, writes |-> 0]
         IN  IF \E i \in 1..Len(elems) : elems[i] = None
             THEN failed("AttributeError")
             ELSE LET html_to_insert ==
                          join(<<"\n", "\n">>, [i \in 1..Len(elems) |-> replace_percent(elems[i])])
                      generated_page == PyFormat(template, <<html_to_insert>>)
                  IN  IF generated_page.err # "" THEN failed(generated_page.err)
                      ELSE IF out_path = Unbound THEN failed("UnboundLocalError")
                      ELSE [err |-> "", template |-> template, writes |-> 1,
                            fs |-> [fsys EXCEPT ![out_path] = TextFile(generated_page.text)]]

----------------------------------------------------------------------------
(* Inputs *)

URL == <<"http", ":", "//a.com/p", "%", "20q">>

QUOTE == <<"100", "%", " great">>

RowTypes == {None, <<>>, CONTENT_TYPE_TWITTER, CONTENT_TYPE_INSTAGRAM,
             CONTENT_TYPE_WEBSITE, <<"foo">>}

RowUrls == {None, <<>>, URL}

RowQuotes == {None, QUOTE}

\* The rows of a content table.  The columns a row's type makes the program
\* ignore are held at one value: url and quote for a row that is skipped on
\* its type, quote for a twitter or instagram row.
ContentRows ==
    {r \in [type : RowTypes, url : RowUrls, quote : RowQuotes] :
        /\ r.type \notin CONTENT_TYPES => (r.url = URL /\ r.quote = None)
        /\ r.type \in EMBEDDED_CONTENT_TYPES => r.quote = None}

Tables == UNION {[1..k -> ContentRows] : k \in 0..MaxRows}

WebsiteRow == [type |-> CONTENT_TYPE_WEBSITE, url |-> URL, quote |-> QUOTE]

BareWebsiteRow == [type |-> CONTENT_TYPE_WEBSITE, url |-> None, quote |-> QUOTE]

TemplateBodies == UNION {[1..k -> {"%", "s"}] : k \in 0..MaxTemplateLen}

Templates == {<<"<html>">> \o b \o <<"</html>">> : b \in TemplateBodies}

GOOD_TEMPLATE == <<"<html>", "%", "s", "</html>">>

ALT_TEMPLATE == <<"<alt>", "%", "s", "</alt>">>

OLD_PAGE == <<"<html>", "old", "</html>">>

STALE_TEMPLATE == <<"<old>", "%", "s", "</old>">>

NoArgs == [content_csv |-> None, page_template |-> None, outfile |-> None]

Args == [content_csv : {None, ALT_CONTENT_CSV_PATH},
         page_template : {None, ALT_PAGE_TEMPLATE_PATH},
         outfile : {None, ALT_OUTFILE_PATH}]

EmptyDisk == [p \in Paths |-> NotAFile]

\* The state of the process when main() is entered.
Launch(a, disk) ==
    /\ args = a
    /\ fs = disk
    /\ fs0 = disk
    /\ pc = "main"
    /\ content_csv_filepath = Unbound
    /\ page_template_filepath = Unbound
    /\ outfile_filepath = Unbound
    /\ content = <<>>
    /\ html_elements_to_add = <<>>
    /\ page_template = Unbound
    /\ requests = <<>>
    /\ responses = <<>>
    /\ embedded_calls = <<>>
    /\ writes = 0
    /\ fault = ""
    /\ exit_code = 0

\* Every content table, with the default paths and a well-formed template.
InitRows ==
    \E table \in Tables, old \in {NotAFile, TextFile(OLD_PAGE)} :
        Launch(NoArgs, [EmptyDisk EXCEPT ![DEFAULT_CONTENT_CSV_PATH] = CsvFile(table),
                                         ![DEFAULT_PAGE_TEMPLATE_PATH] = TextFile(GOOD_TEMPLATE),
                                         ![DEFAULT_OUTFILE_PATH] = old])

\* Every template, with the default paths and tables of website rows.
InitTemplates ==
    \E template \in Templates, table \in {<<>>, <<WebsiteRow>>, <<WebsiteRow, BareWebsiteRow>>} :
        Launch(NoArgs, [EmptyDisk EXCEPT ![DEFAULT_CONTENT_CSV_PATH] = CsvFile(table),
                                         ![DEFAULT_PAGE_TEMPLATE_PATH] = TextFile(template),
                                         ![DEFAULT_OUTFILE_PATH] = TextFile(OLD_PAGE)])

\* Every combination of flags, with each input file present or not.
InitEnvironment ==
    \E a \in Args,
       c1 \in {NotAFile, CsvFile(<<WebsiteRow>>)},
       c2 \in {NotAFile, CsvFile(<<BareWebsiteRow>>)},
       t1 \in {NotAFile, TextFile(GOOD_TEMPLATE)},
       t2 \in {NotAFile, TextFile(ALT_TEMPLATE)},
       o1 \in {NotAFile, TextFile(OLD_PAGE)},
       o2 \in {NotAFile, TextFile(OLD_PAGE), TextFile(STALE_TEMPLATE)} :
        Launch(a, [p \in Paths |->
                     CASE p = DEFAULT_CONTENT_CSV_PATH -> c1
                       [] p = ALT_CONTENT_CSV_PATH -> c2
                       [] p = DEFAULT_PAGE_TEMPLATE_PATH -> t1
                       [] p = ALT_PAGE_TEMPLATE_PATH -> t2
                       [] p = DEFAULT_OUTFILE_PATH -> o1
                       [] OTHER -> o2])

Init == InitRows \/ InitTemplates \/ InitEnvironment

----------------------------------------------------------------------------
(* The run *)

Terminated(code, exception) ==
    /\ exit_code' = code
    /\ fault' = exception

\* main() up to the row loop: resolve the three paths, validate the two
\* input paths (sys.exit(1) on the first that is not a file), load the rows.
ResolvePathsAndLoad ==
    /\ pc = "main"
    /\ LET content_path == IF ~Falsy(args.content_csv)
                           THEN args.content_csv ELSE DEFAULT_CONTENT_CSV_PATH
           template_path == IF ~Falsy(args.page_template)
                            THEN args.page_template ELSE DEFAULT_PAGE_TEMPLATE_PATH
       IN  IF ~os_path_isfile(fs, content_path)
           THEN /\ pc' = "exit"
                /\ Terminated(1, "SystemExit")
                /\ content_csv_filepath' = content_path
                /\ UNCHANGED <<page_template_filepath, outfile_filepath, content>>
           ELSE IF ~os_path_isfile(fs, template_path)
           THEN /\ pc' = "exit"
                /\ Terminated(1, "SystemExit")
                /\ content_csv_filepath' = content_path
                /\ page_template_filepath' = template_path
                /\ UNCHANGED <<outfile_filepath, content>>
           ELSE /\ pc' = "loop"
                /\ content_csv_filepath' = content_path
                /\ IF ~Falsy(args.outfile)
                   THEN /\ page_template_filepath' = args.outfile
                        /\ outfile_filepath' = Unbound
                   ELSE /\ page_template_filepath' = template_path
                        /\ outfile_filepath' = DEFAULT_OUTFILE_PATH
                /\ content' = content_from_csv(fs, content_path)
                /\ UNCHANGED <<fault, exit_code>>
    /\ UNCHANGED <<args, fs, fs0, html_elements_to_add, page_template, requests,
                   responses, embedded_calls, writes>>

\* One iteration of the row loop, up to the point where it either appends
\* the row's element or blocks in requests.get.
ProcessRow ==
    /\ pc = "loop"
    /\ Len(html_elements_to_add) < Len(content)
    /\ LET i == Len(html_elements_to_add) + 1
           row == content[i]
           branch == html_element_from_content_branch(row)
           gets == embedded_content_requests(row.url, row.type)
       IN  CASE branch \in {"no_type", "unrecognized", "no_url"} ->
                    /\ html_elements_to_add' = Append(html_elements_to_add, None)
                    /\ UNCHANGED <<pc, requests, embedded_calls, fault, exit_code>>
             [] branch = "website" ->
                    /\ html_elements_to_add' =
                           Append(html_elements_to_add,
                                  html_element_from_website_content(row.url, row.quote))
                    /\ UNCHANGED <<pc, requests, embedded_calls, fault, exit_code>>
             [] branch = "embedded" ->
                    /\ embedded_calls' = Append(embedded_calls,
                                                [url |-> row.url, content_type |-> row.type])
                    /\ requests' = requests \o
                           [k \in 1..Len(gets) |->
                               [row |-> i, resolved |-> Len(html_elements_to_add),
                                query_path |-> gets[k]]]
                    /\ IF gets = <<>>
                       THEN /\ pc' = "fault"
                            /\ Terminated(1, "ValueError: Unexpected type")
                       ELSE /\ pc' = "get"
                            /\ UNCHANGED <<fault, exit_code>>
                    /\ UNCHANGED html_elements_to_add
             [] OTHER ->
                    /\ pc' = "fault"
                    /\ Terminated(1, "UnboundLocalError")
                    /\ UNCHANGED <<html_elements_to_add, requests, embedded_calls>>
    /\ UNCHANGED <<args, fs, fs0, content_csv_filepath, page_template_filepath,
                   outfile_filepath, content, page_template, responses, writes>>

\* requests.get returns: the rest of the embed fetcher, of
\* html_element_from_embedded_content and of the loop iteration.
ReceiveResponse ==
    /\ pc = "get"
    /\ \E response \in Responses :
        LET i == Len(html_elements_to_add) + 1
            row == content[i]
            elem == html_element_from_embedded_content(row.url, row.type, response)
        IN  /\ responses' = Append(responses, [row |-> i, status_code |-> response.status_code,
                                               body |-> response.body])
            /\ IF elem.err # ""
               THEN /\ pc' = "fault"
                    /\ Terminated(1, elem.err)
                    /\ UNCHANGED html_elements_to_add
               ELSE /\ pc' = "loop"
                    /\ html_elements_to_add' = Append(html_elements_to_add, elem.text)
                    /\ UNCHANGED <<fault, exit_code>>
    /\ UNCHANGED <<args, fs, fs0, content_csv_filepath, page_template_filepath,
                   outfile_filepath, content, page_template, requests,
                   embedded_calls, writes>>

\* main() after the row loop.
AssembleAndWrite ==
    /\ pc = "loop"
    /\ Len(html_elements_to_add) = Len(content)
    /\ LET result == main_assemble(fs, page_template_filepath, outfile_filepath,
                                   html_elements_to_add)
       IN  /\ fs' = result.fs
           /\ writes' = writes + result.writes
           /\ page_template' = IF result.err = "IOError" THEN page_template
                               ELSE result.template
           /\ IF result.err # ""
              THEN /\ pc' = "fault"
                   /\ Terminated(1, result.err)
              ELSE /\ pc' = "done"
                   /\ Terminated(0, "")
    /\ UNCHANGED <<args, fs0, content_csv_filepath, page_template_filepath,
                   outfile_filepath, content, html_elements_to_add, requests,
                   responses, embedded_calls>>

Next == ResolvePathsAndLoad \/ ProcessRow \/ ReceiveResponse \/ AssembleAndWrite

Spec == Init /\ [][Next]_vars

----------------------------------------------------------------------------
(* Vocabulary of the properties *)

Ended == pc \in {"done", "exit", "fault"}

Processed == 1..Len(html_elements_to_add)

IsEmbeddedRow(row) == row.type \in {CONTENT_TYPE_TWITTER, CONTENT_TYPE_INSTAGRAM}

HasInvalidType(row) ==
    row.type \notin {CONTENT_TYPE_TWITTER, CONTENT_TYPE_INSTAGRAM, CONTENT_TYPE_WEBSITE}

GetsOfRow(i) == {k \in 1..Len(requests) : requests[k].row = i}

\* The paths the flags and the defaults resolve to.
ResolvedContentPath ==
    IF args.content_csv # None THEN args.content_csv ELSE DEFAULT_CONTENT_CSV_PATH

ResolvedTemplatePath ==
    IF args.page_template # None THEN args.page_template ELSE DEFAULT_PAGE_TEMPLATE_PATH

ResolvedOutfilePath ==
    IF args.outfile # None THEN args.outfile ELSE DEFAULT_OUTFILE_PATH

\* The text a missing or present field shows as.
Shown(v) == IF v = None THEN <<"None">> ELSE v

RECURSIVE Doubled(_)
Doubled(text) ==
    IF text = <<>> THEN <<>>
    ELSE IF Head(text) = "%" THEN <<"%", "%">> \o Doubled(Tail(text))
    ELSE <<Head(text)>> \o Doubled(Tail(text))

\* The texts, each with "%" doubled, separated by two newlines.
RECURSIVE Block(_)
Block(texts) ==
    IF texts = <<>> THEN <<>>
    ELSE IF Len(texts) = 1 THEN Doubled(texts[1])
    ELSE Doubled(texts[1]) \o <<"\n", "\n">> \o Block(Tail(texts))

\* A template whose only "%" is the one of its single "%s".
OnePlaceholder(template) ==
    /\ Cardinality({k \in 1..Len(template) : template[k] = "%"}) = 1
    /\ \E k \in 1..(Len(template) - 1) : template[k] = "%" /\ template[k + 1] = "s"

Filled(template, block) ==
    LET k == CHOOSE j \in 1..Len(template) : template[j] = "%"
    IN  SubSeq(template, 1, k - 1) \o block \o SubSeq(template, k + 2, Len(template))

\* Whether the fetch of processed row i was answered with a status other
\* than 200.
FetchFailed(i) ==
    \E k \in 1..Len(responses) : responses[k].row = i /\ responses[k].status_code # 200

\* The fragments of the processed rows, in row order: a skipped row and a
\* row whose fetch failed have none.
RECURSIVE FragmentsUpTo(_)
FragmentsUpTo(n) ==
    IF n = 0 THEN <<>>
    ELSE IF html_elements_to_add[n] = None \/ FetchFailed(n)
    THEN FragmentsUpTo(n - 1)
    ELSE Append(FragmentsUpTo(n - 1), html_elements_to_add[n])

----------------------------------------------------------------------------
(* Properties *)

\* C1: a row whose type is missing, empty or unrecognized contributes no
\* fragment, and the run still completes and writes the page with the
\* fragments of the other rows in their original order.  Stated for the
\* runs in which nothing else can fail: default output path, a template
\* with one placeholder, and only website rows besides the skipped ones.
C1_SkippedTypeRowDoesNotAbort ==
    /\ \A i \in Processed :
           HasInvalidType(content[i]) => html_elements_to_add[i] = None
    /\ ( /\ pc \in {"done", "fault"}
         /\ outfile_filepath # Unbound
         /\ OnePlaceholder(fs0[page_template_filepath].text)
         /\ \E i \in 1..Len(content) : HasInvalidType(content[i])
         /\ \A i \in 1..Len(content) :
                HasInvalidType(content[i]) \/ content[i].type = CONTENT_TYPE_WEBSITE )
       => /\ pc = "done"
          /\ fs[outfile_filepath].text =
                 Filled(fs0[page_template_filepath].text,
                        Block(FragmentsUpTo(Len(html_elements_to_add))))

\* C2: for a twitter or instagram row with a non-empty url whose GET is
\* answered with a status other than 200, the fragment builder's result is
\* absent.
C2_FailedFetchYieldsNoFragment ==
    \A i \in Processed :
        (IsEmbeddedRow(content[i]) /\ ~Falsy(content[i].url) /\ FetchFailed(i))
            => html_elements_to_add[i] = None

\* C3: for a template with exactly one placeholder, the page written is the
\* template with the placeholder replaced by the rows' fragments in row
\* order, each with "%" doubled, joined by two newlines (by the empty
\* string when there are no fragments).
C3_PageIsTemplateWithFragments ==
    (pc = "done" /\ OnePlaceholder(page_template))
        => fs[outfile_filepath].text =
               Filled(page_template, Block(FragmentsUpTo(Len(html_elements_to_add))))

\* C4: each of the three paths is the one given on the command line when
\* one is given and the default otherwise: the table is read from the
\* resolved content path, the template from the resolved template path, and
\* the page is written to the resolved output path.
C4_PathsResolveIndependently ==
    /\ pc \in {"loop", "get", "done", "fault"} =>
           /\ content_csv_filepath = ResolvedContentPath
           /\ content = fs0[ResolvedContentPath].rows
           /\ page_template_filepath = ResolvedTemplatePath
           /\ outfile_filepath = ResolvedOutfilePath
    /\ pc = "done" =>
           /\ page_template = fs0[ResolvedTemplatePath].text
           /\ fs[ResolvedOutfilePath] # fs0[ResolvedOutfilePath]

\* C5: a twitter or instagram row whose url is missing or empty produces no
\* fragment and no HTTP request is issued for it.
C5_EmbeddedRowWithoutUrlIsNotFetched ==
    \A i \in 1..Len(content) :
        (IsEmbeddedRow(content[i]) /\ (content[i].url = None \/ content[i].url = <<>>))
            => /\ GetsOfRow(i) = {}
               /\ i \in Processed => html_elements_to_add[i] = None

C5_Witness ==
    \E i \in Processed :
        /\ IsEmbeddedRow(content[i])
        /\ content[i].url = <<>>
        /\ html_elements_to_add[i] = None

\* C6: the process ends with a non-zero exit code only if the content
\* table path or the template path is not an existing regular file; every
\* other run (per-row skips and fetch failures included) ends successfully
\* after writing the output.  Stated for the runs whose template has one
\* placeholder and whose 200 responses carry the html key.
C6_NonZeroExitOnlyOnMissingInput ==
    ( /\ Ended
      /\ \A k \in 1..Len(responses) :
             responses[k].status_code = 200 => responses[k].body = "html" )
    => IF fs0[ResolvedContentPath].isfile /\ fs0[ResolvedTemplatePath].isfile
       THEN OnePlaceholder(fs0[ResolvedTemplatePath].text)
                => (exit_code = 0 /\ pc = "done" /\ writes = 1)
       ELSE exit_code # 0

\* C7: a website row yields exactly the container with the quote span, a
\* newline and the url span (quote first), issues no HTTP request, and a
\* missing url or quote appears as the text None instead of the row being
\* skipped.
C7_WebsiteFragment ==
    \A i \in 1..Len(content) :
        content[i].type = CONTENT_TYPE_WEBSITE
            => /\ GetsOfRow(i) = {}
               /\ i \in Processed =>
                      html_elements_to_add[i] =
                          <<"<div class=\"content ", "website", "\">",
                            "<span class=\"website-content\">">>
                          \o Shown(content[i].quote)
                          \o <<"</span>", "\n", "<span class=\"website-url\">">>
                          \o Shown(content[i].url)
                          \o <<"</span>", "</div>">>

C7_Witness ==
    \E i \in Processed :
        /\ content[i].type = CONTENT_TYPE_WEBSITE
        /\ content[i].url = None
        /\ content[i].quote = QUOTE
        /\ html_elements_to_add[i] # None

\* C8: rows are processed one at a time in file order: the GET of a row is
\* issued only when every earlier row has been resolved and appended, one
\* GET at most is outstanding, a processed row has had exactly one GET if
\* it is an embedded row with a non-empty url and none otherwise, and no
\* GET is repeated after a non-200 answer.
C8_OneFetchPerRowInOrder ==
    /\ \A k \in 1..Len(requests) : requests[k].resolved = requests[k].row - 1
    /\ \A j, k \in 1..Len(requests) : j < k => requests[j].row < requests[k].row
    /\ Len(requests) = Len(responses) + (IF pc = "get" THEN 1 ELSE 0)
    /\ \A k \in 1..Len(responses) : responses[k].row = requests[k].row
    /\ pc = "get" => requests[Len(requests)].row = Len(html_elements_to_add) + 1
    /\ \A i \in Processed :
           Cardinality(GetsOfRow(i)) =
               IF IsEmbeddedRow(content[i]) /\ ~Falsy(content[i].url) THEN 1 ELSE 0

C8_Witness ==
    /\ Len(requests) = 2
    /\ Len(responses) = 2
    /\ responses[1].status_code # 200
    /\ requests[1].row = 1
    /\ requests[2].row = 2
    /\ Len(html_elements_to_add) = 2

\* C9: the output file is written at most once, and only after every row
\* has been processed and the substitution has succeeded; a run that ends
\* early leaves the files as they were.
C9_OutputWrittenOnceAtTheEnd ==
    /\ writes <= 1
    /\ pc # "done" => (writes = 0 /\ fs = fs0)
    /\ pc = "done" =>
           /\ writes = 1
           /\ Len(html_elements_to_add) = Len(content)
           /\ \A p \in Paths \ {outfile_filepath} : fs[p] = fs0[p]

C9_Witness ==
    /\ pc = "fault"
    /\ fault = "TypeError: not enough arguments"
    /\ Len(html_elements_to_add) = 2
    /\ fs[DEFAULT_OUTFILE_PATH] = TextFile(OLD_PAGE)

\* C10: html_element_from_embedded_content is called only with a content
\* type of twitter or instagram and a non-empty url, so its "Unexpected
\* type" ValueError is never raised.
C10_EmbeddedBuilderPrecondition ==
    /\ \A k \in 1..Len(embedded_calls) :
           /\ embedded_calls[k].content_type \in {CONTENT_TYPE_TWITTER, CONTENT_TYPE_INSTAGRAM}
           /\ embedded_calls[k].url # None
           /\ embedded_calls[k].url # <<>>
    /\ fault # "ValueError: Unexpected type"

C10_Witness ==
    /\ Len(embedded_calls) = 2
    /\ embedded_calls[1].content_type = CONTENT_TYPE_TWITTER
    /\ embedded_calls[2].content_type = CONTENT_TYPE_INSTAGRAM
    /\ pc = "done"

====
